---- MODULE Spec2Model ----
(***************************************************************************)
(* Account lifecycle of the face-authentication backend                    *)
(* (backend/app/routes/auth.py): signup, verify-otp, resend-otp, login,    *)
(* login-password, logout and /me over one users table, with the helpers   *)
(* of app/utils/auth_utils.py and the embedding comparator of              *)
(* app/services/face_recognition.py.                                       *)
(*                                                                         *)
(* A request handler is cut at its database round trips: every SELECT      *)
(* reads the committed table, every commit() writes it atomically.  Under  *)
(* Spec one request runs to completion before the next one starts; under   *)
(* ConcSpec the steps of different requests interleave.                    *)
(***************************************************************************)
EXTENDS Integers, Sequences, FiniteSets, TLC

VARIABLES
    users,      \* committed rows of the users table
    nextId,     \* next primary key the table hands out
    now,        \* datetime.utcnow(), in minutes
    pc,         \* per client: position of its request in flight
    loc,        \* per client: local variables of the handler in flight
    resp,       \* the response on its way back to the client, if there is one
    sess,       \* per client: Flask session cookie
    limiter,    \* per client address: the rate-limit record
    mail,       \* the email the handler has just handed to the mail service
    push,       \* the event the handler has just emitted to a socket room
    sock,       \* per client: its Socket.IO connection and the rooms it is in
    cmp         \* one call of the comparator: its arguments and results

vars == <<users, nextId, now, pc, loc, resp, sess, limiter, mail, push, sock,
          cmp>>

----------------------------------------------------------------------------
(* Bounds *)

MaxId == 2          \* primary keys handed out: 1..MaxId
MaxTicks == 2       \* the clock stops after MaxTicks ticks
MaxSignups == 2     \* signups recorded for one address outside the limiter runs
MaxComponent == 2       \* largest component of an embedding handed to the comparator

(* Program constants *)

OTP_EXPIRY_MINUTES == 10
MIN_NAME_LEN == 2
MIN_PASSWORD_LEN == 6

\* The clock ticks in steps of one code lifetime, so that a code is seen
\* before, at and after its expiry.
TickMinutes == OTP_EXPIRY_MINUTES

\* Where the rate limiter is exercised the clock ticks in steps that fall
\* inside a window and past its end, never on the end itself.
RateTickMinutes == 4 * OTP_EXPIRY_MINUTES

Procs == {1, 2}     \* clients, each with its own session cookie

\* request.environ.get('HTTP_X_FORWARDED_FOR', request.remote_addr)
Ip1 == <<"1">>
Ip2 == <<"2">>
ClientKeys == {Ip1, Ip2}

----------------------------------------------------------------------------
(* Values.  Text is a sequence of one-character strings. *)

None == <<>>        \* Python None / SQL NULL for text, hashes and embeddings
NoTime == -1        \* SQL NULL for a DateTime column
NoId == 0           \* no row / no session user

Rep(c, n) == [i \in 1..n |-> c]

IsSpace(c) == c = " "

RECURSIVE LStrip(_)
LStrip(s) == IF s # <<>> /\ IsSpace(Head(s)) THEN LStrip(Tail(s)) ELSE s

RECURSIVE RStrip(_)
RStrip(s) ==
    IF s # <<>> /\ IsSpace(s[Len(s)]) THEN RStrip(SubSeq(s, 1, Len(s) - 1)) ELSE s

\* str.strip()
Strip(s) == RStrip(LStrip(s))

LowerChar(c) ==
    CASE c = "A" -> "a"
      [] c = "B" -> "b"
      [] c = "X" -> "x"
      [] OTHER -> c

\* str.lower()
Lower(s) == [i \in 1..Len(s) |-> LowerChar(s[i])]

\* email = data['email'].strip().lower()
NormalizeEmail(s) == Lower(Strip(s))

\* Two addresses; the first one is typed with capitals and a leading blank.
EmailA == <<"a", "@", "x">>
EmailB == <<"b", "@", "x">>
RawEmails == {<<" ", "A", "@", "X">>, EmailB}

\* An address that validate_email turns down.
BadEmail == <<"b", "x">>        \* no "@"

GoodName == <<"A", "l">>
ShortName == <<" ", "A", " ">>

Pw1 == Rep("p", 6)
Pw2 == Rep("q", 6)
ShortPw == Rep("p", 5)
Passwords == {Pw1, Pw2}

Code1 == Rep("1", 6)
Code2 == Rep("2", 6)
Codes == {Code1, Code2}            \* what generate_otp can draw
OtpInputs == {Code1, <<"2", "2", "2", "2", "2", "2", " ">>}

\* Face images: three decodable pictures and one undecodable payload.
ImgA1 == <<"A", "1">>
ImgA2 == <<"A", "2">>
ImgB == <<"B">>
Garbage == <<"?">>
Images == {ImgA1, ImgA2, ImgB, Garbage}

EmbA1 == <<1, 0, 0>>
EmbA2 == <<2, 1, 0>>    \* same person as EmbA1, another picture
EmbB == <<0, 1, 0>>     \* another person

\* Two more faces whose embeddings are at cosine distance 1/2 of each other,
\* and a decodable picture in which no face is found.
ImgC1 == <<"C", "1">>
ImgC2 == <<"C", "2">>
Blank == <<"_">>

EmbC1 == <<1, 0, 1>>
EmbC2 == <<0, 1, 1>>    \* cos(EmbC1, EmbC2) = 1/2: distance 0.5 exactly

\* The fallback embedding of Blank: its colour statistics, padded with
\* np.random.random() noise that differs from call to call.
EmbF1 == <<0, 0, 2>>
EmbF2 == <<0, 1, 3>>

\* "data:image/...;base64," in front of a payload
DataUrl(payload) == <<"data:image", ",">> \o payload

----------------------------------------------------------------------------
(* app/utils/auth_utils.py *)

\* bcrypt: the salt is left out, the digest stands for the secret it hashes.
hash_password(password) == <<"$2b$", password>>

verify_password(password, hashed) ==
    /\ hashed # None
    /\ hashed[1] = "$2b$"
    /\ hashed[2] = password

hash_otp(otp) == hash_password(otp)

verify_otp(otp, hashed) == verify_password(otp, hashed)

\* validate_email: ^[a-zA-Z0-9._%+-]+@[a-zA-Z0-9.-]+\.[a-zA-Z]{2,}$
\* A host name with its top-level domain ("x" for x.org) is one element of
\* the text.
validate_email(email) ==
    /\ Len(email) >= 3
    /\ \A i \in 1..(Len(email) - 2) : email[i] \in {"a", "b", "A", "B"}
    /\ email[Len(email) - 1] = "@"
    /\ email[Len(email)] \in {"x", "X"}

----------------------------------------------------------------------------
(* app/services/face_recognition.py *)

FACE_THRESHOLD_NUM == 1     \* face_threshold = 0.5 = 1/2
FACE_THRESHOLD_DEN == 2

Dot(a, b) == a[1] * b[1] + a[2] * b[2] + a[3] * b[3]

\* base64_to_image, lines 45-46: what follows the first comma, if there is one
base64_to_image(base64_string) ==
    IF \E i \in 1..Len(base64_string) : base64_string[i] = ","
    THEN LET i == CHOOSE i \in 1..Len(base64_string) :
                      /\ base64_string[i] = ","
                      /\ \A j \in 1..(i - 1) : base64_string[j] # ","
         IN  SubSeq(base64_string, i + 1, Len(base64_string))
    ELSE base64_string

\* detect_and_extract_face finds no face in the decoded picture.
NoFaceDetected(image) == image = Blank

\* get_face_embedding on a picture with a face or an undecodable payload:
\* (embedding, "") or (None, error message)
get_face_embedding(base64_image) ==
    LET image == base64_to_image(base64_image)
    IN  CASE image = ImgA1 -> [embedding |-> EmbA1, error |-> ""]
          [] image = ImgA2 -> [embedding |-> EmbA2, error |-> ""]
          [] image = ImgB -> [embedding |-> EmbB, error |-> ""]
          [] image = ImgC1 -> [embedding |-> EmbC1, error |-> ""]
          [] image = ImgC2 -> [embedding |-> EmbC2, error |-> ""]
          [] OTHER -> [embedding |-> None, error |-> "Invalid image format"]

\* get_face_embedding, every result a call can return: when no face is
\* detected in a decodable picture, a fallback embedding and no error.
Extractions(base64_image) ==
    IF NoFaceDetected(base64_to_image(base64_image))
    THEN {[embedding |-> e, error |-> ""] : e \in {EmbF1, EmbF2}}
    ELSE {get_face_embedding(base64_image)}

\* A cosine distance 1 - dot/sqrt(sq) is kept as the pair (dot, sq) with
\* sq = norm1^2 * norm2^2; nan is the result of 0/0.
Distance(dot, sq) == [nan |-> FALSE, dot |-> dot, sq |-> sq]
NaN == [nan |-> TRUE, dot |-> 0, sq |-> 0]

\* the distance without the division by the norms
compare_embeddings_unnormalised(embedding1, embedding2) ==
    Distance(Dot(embedding1, embedding2), 1)

\* compare_embeddings: numpy divides 0.0 by 0.0 with a warning, not an
\* exception, so the except branch and its 1.0 are never taken.
compare_embeddings(embedding1, embedding2) ==
    LET dot_product == Dot(embedding1, embedding2)
        sq == Dot(embedding1, embedding1) * Dot(embedding2, embedding2)
    IN  IF sq = 0 THEN NaN ELSE Distance(dot_product, sq)

\* distance <= face_threshold
AtOrBelowThreshold(distance) ==
    LET k == FACE_THRESHOLD_DEN - FACE_THRESHOLD_NUM
    IN  /\ ~distance.nan
        /\ distance.dot > 0
        /\ FACE_THRESHOLD_DEN * FACE_THRESHOLD_DEN * distance.dot * distance.dot
               >= k * k * distance.sq

\* distance < face_threshold, in exact arithmetic: dot/sqrt(sq) > 1 - 1/2,
\* that is dot > 0 and 4*dot^2 > sq.  nan < 0.5 is False.
BelowThreshold(distance) ==
    LET k == FACE_THRESHOLD_DEN - FACE_THRESHOLD_NUM
    IN  /\ ~distance.nan
        /\ distance.dot > 0
        /\ FACE_THRESHOLD_DEN * FACE_THRESHOLD_DEN * distance.dot * distance.dot
               > k * k * distance.sq

\* is_same_person: distance < self.face_threshold
is_same_person(embedding1, embedding2) ==
    BelowThreshold(compare_embeddings(embedding1, embedding2))

----------------------------------------------------------------------------
(* app/models.py: the users table *)

\* User.set_embedding / User.get_embedding: the vector is stored as bytes.
set_embedding(embedding) == <<"blob", embedding>>

get_embedding(stored) == stored[2]

\* User.query.filter_by(email=email).first(): NoId when there is no row
FindByEmail(table, email) ==
    IF \E u \in table : u.email = email
    THEN (CHOOSE u \in table : u.email = email).id
    ELSE NoId

HasRow(table, id) == \E u \in table : u.id = id

Row(table, id) == CHOOSE u \in table : u.id = id

\* UPDATE users SET ... WHERE id = :id, committed
UpdateRow(table, id, new) == {IF u.id = id THEN new ELSE u : u \in table}

\* DELETE FROM users WHERE id = :id, committed
DeleteRow(table, id) == {u \in table : u.id # id}

----------------------------------------------------------------------------
(* app/models.py: RateLimiter, one record per client address *)

RATE_LIMIT_MAX_ATTEMPTS == 5
RATE_LIMIT_WINDOW_MINUTES == 60

\* A miss: no record counts as zero attempts.
NoRecord == [attempts |-> 0, window_start |-> NoTime]

\* Variant: a window, once opened, never closes.
WindowNeverCloses(rec, t) == rec.window_start # NoTime

\* The window of the record is still open at time t.
WindowOpen(rec, t) ==
    /\ rec.window_start # NoTime
    /\ t < rec.window_start + RATE_LIMIT_WINDOW_MINUTES

\* Variant: limited only once the count has passed the threshold.
is_rate_limited_past(rec, t) ==
    WindowOpen(rec, t) /\ rec.attempts > RATE_LIMIT_MAX_ATTEMPTS

\* RateLimiter.is_rate_limited: the count inside the still-open window has
\* reached the threshold; an expired window counts as zero.
is_rate_limited(rec, t) ==
    WindowOpen(rec, t) /\ rec.attempts >= RATE_LIMIT_MAX_ATTEMPTS

\* RateLimiter.record_attempt: one more attempt in the open window, or the
\* first attempt of a new window when none is open.
record_attempt(rec, t) ==
    IF WindowOpen(rec, t)
      THEN [rec EXCEPT !.attempts = @ + 1]
      ELSE [attempts |-> 1, window_start |-> t]

----------------------------------------------------------------------------
(* app/services/email_service.py and the socket.io server *)

\* Variant: send_email lets an SMTP error through.
EmailResultsRaising == {"sent", "failed", "raised"}

\* send_email: True when the message went out, False on any exception.
EmailResults == {"sent", "failed"}

NoMail == [kind |-> "", to |-> None, otp |-> None, name |-> None, result |-> ""]

\* send_otp_email(to_email, otp, name)
send_otp_email(to_email, otp, name, result) ==
    [kind |-> "otp", to |-> to_email, otp |-> otp, name |-> name, result |-> result]

\* send_login_notification(to_email, name)
send_login_notification(to_email, name, result) ==
    [kind |-> "login", to |-> to_email, otp |-> None, name |-> name, result |-> result]

\* socketio.emit either hands the event to the room or raises.
EmitResults == {"emitted", "raised"}

NoPush == [event |-> "", room |-> NoId, result |-> ""]

\* Variant: socketio.emit without a room, which goes to every connection.
emit_broadcast(event, user_id, result) ==
    [event |-> event, room |-> NoId, result |-> result]

\* socketio.emit(event, {...}, room=f'user_{user_id}')
emit(event, user_id, result) == [event |-> event, room |-> user_id, result |-> result]

----------------------------------------------------------------------------
(* Requests, locals and responses *)

Response(status, body) == [status |-> status, body |-> body]

NoResponse == Response(0, "")

\* The error responses of routes/auth.py, under the names of the taxonomy.
DuplicateAccount == Response(400, "Email already registered")
DuplicateIdentity ==
    Response(400, "This face is already registered to another account")
NotFound == Response(404, "User not found")
AlreadyVerified == Response(400, "Account already verified")
Expired == Response(400, "OTP has expired")
InvalidCode == Response(400, "Invalid OTP")
InternalError == Response(500, "Internal server error")
RateLimited == Response(429, "Too many signup attempts. Please try again later.")
MailError == Response(500, "Failed to send email")

\* The success responses.
SignupOk ==
    Response(201, "Signup successful. Please check your email for OTP verification.")
VerifyOk == Response(200, "Account verified successfully. You can now login.")
ResendOk == Response(200, "OTP sent successfully")
LoginOk == Response(200, "Login successful")

\* The error responses of the two logins.
NotVerified == Response(400, "Account not verified. Please check your email.")
FaceMismatch == Response(401, "Face did not match. Please try again.")
InvalidCredentials == Response(401, "Invalid credentials")

NoSession == [user_id |-> NoId, email |-> None]

\* No Socket.IO connection, and no comparator call.
NoSocket == [connected |-> FALSE, user_id |-> NoId, rooms |-> {}, event |-> ""]
NoCall == [embedding1 |-> None, embedding2 |-> None, called |-> FALSE,
           distance |-> NaN, same |-> FALSE]

NoLoc == [email |-> None, name |-> None, password |-> None,
          face_image |-> None, uid |-> NoId, embedding |-> None]

\* The client has no request in flight and no response is under way.
Idle(p) == pc[p] = "idle" /\ resp = NoResponse

SignupPcs == {"signup_delete", "signup_scan", "signup_persist"}

\* Signups in flight that may still insert a row.
PendingInserts == Cardinality({q \in Procs : pc[q] \in SignupPcs})

\* return jsonify(...), status, after the handler has handed mail m to the
\* mail service and event e to the socket server.
Respond(p, r, m, e) ==
    /\ pc' = [pc EXCEPT ![p] = "idle"]
    /\ loc' = [loc EXCEPT ![p] = NoLoc]
    /\ resp' = r
    /\ mail' = m
    /\ push' = e

\* return jsonify(...), status, with no notification
Reply(p, r) == Respond(p, r, NoMail, NoPush)

Return(p, status, body) == Reply(p, Response(status, body))

\* The handler goes on to its next database round trip.
Goto(p, label, locals) ==
    /\ pc' = [pc EXCEPT ![p] = label]
    /\ loc' = [loc EXCEPT ![p] = locals]
    /\ UNCHANGED <<resp, mail, push>>

Init ==
    /\ users = {}
    /\ nextId = 1
    /\ now = 0
    /\ pc = [p \in Procs |-> "idle"]
    /\ loc = [p \in Procs |-> NoLoc]
    /\ resp = NoResponse
    /\ sess = [p \in Procs |-> NoSession]
    /\ limiter = [k \in ClientKeys |-> NoRecord]
    /\ mail = NoMail
    /\ push = NoPush
    /\ sock = [p \in Procs |-> NoSocket]
    /\ cmp = NoCall

----------------------------------------------------------------------------
(* POST /signup *)

\* Variant: the row is committed before the one-time code is bound to it.
NewUserWithoutCode(id, l, otp_code, t) ==
    [id |-> id,
     name |-> l.name,
     email |-> l.email,
     password_hash |-> hash_password(l.password),
     face_embedding |-> set_embedding(l.embedding),
     is_verified |-> FALSE,
     otp_hash |-> None,
     otp_expires_at |-> NoTime,
     last_login_at |-> NoTime]

\* The row signup builds: User(name, email, password_hash, is_verified=False),
\* set_embedding, then otp_hash and otp_expires_at.
NewUser(id, l, otp_code, t) ==
    [id |-> id,
     name |-> l.name,
     email |-> l.email,
     password_hash |-> hash_password(l.password),
     face_embedding |-> set_embedding(l.embedding),
     is_verified |-> FALSE,
     otp_hash |-> hash_otp(otp_code),
     otp_expires_at |-> t + OTP_EXPIRY_MINUTES,
     last_login_at |-> NoTime]

\* Variant: every account found under the email is replaced.
ReplaceableAlways(u) == TRUE

\* Lines 62-68: an account found under the email is deleted and registered
\* anew unless it is verified.
Replaceable(u) == ~u.is_verified

\* Lines 35-38: the error for the first required field that is missing or
\* empty, "" when all are there.
\* Variant: the face image is not among the required fields.
MissingFieldButFace(name, email, password, face_image) ==
    CASE name = None -> "name is required"
      [] email = None -> "email is required"
      [] password = None -> "password is required"
      [] OTHER -> ""

MissingField(name, email, password, face_image) ==
    CASE name = None -> "name is required"
      [] email = None -> "email is required"
      [] password = None -> "password is required"
      [] face_image = None -> "face_image is required"
      [] OTHER -> ""

\* Variant: the attempt is recorded after the email look-up, so that a signup
\* for a registered email is not counted.
SignupBeginRecordsLate(p, rawName, rawEmail, password, face_image, client_ip) ==
    LET missing == MissingField(rawName, rawEmail, password, face_image)
        name == Strip(rawName)
        email == NormalizeEmail(rawEmail)
        existing == FindByEmail(users, email)
        l == [NoLoc EXCEPT !.name = name, !.email = email,
                           !.password = password, !.face_image = face_image,
                           !.uid = existing]
    IN  /\ Idle(p)
        /\ nextId + PendingInserts <= MaxId
        /\ IF missing # ""
             THEN Return(p, 400, missing) /\ UNCHANGED limiter
           ELSE IF Len(name) < MIN_NAME_LEN
             THEN /\ Return(p, 400, "Name must be at least 2 characters")
                  /\ UNCHANGED limiter
           ELSE IF Len(password) < MIN_PASSWORD_LEN
             THEN /\ Return(p, 400, "Password must be at least 6 characters")
                  /\ UNCHANGED limiter
           ELSE IF is_rate_limited(limiter[client_ip], now)
             THEN Reply(p, RateLimited) /\ UNCHANGED limiter
           ELSE IF existing # NoId /\ ~Replaceable(Row(users, existing))
             THEN Reply(p, DuplicateAccount) /\ UNCHANGED limiter
           ELSE /\ limiter' = [limiter EXCEPT
                                 ![client_ip] = record_attempt(@, now)]
                /\ IF existing # NoId
                     THEN Goto(p, "signup_delete", l)
                   ELSE Goto(p, "signup_scan", l)
        /\ UNCHANGED <<users, nextId, now, sock, cmp, sess>>

\* Variant: the attempt is recorded before the limiter is asked.
SignupBeginRecordsFirst(p, rawName, rawEmail, password, face_image, client_ip) ==
    LET missing == MissingField(rawName, rawEmail, password, face_image)
        name == Strip(rawName)
        email == NormalizeEmail(rawEmail)
        existing == FindByEmail(users, email)
        l == [NoLoc EXCEPT !.name = name, !.email = email,
                           !.password = password, !.face_image = face_image,
                           !.uid = existing]
        recorded == record_attempt(limiter[client_ip], now)
    IN  /\ Idle(p)
        /\ nextId + PendingInserts <= MaxId
        /\ IF missing # ""
             THEN Return(p, 400, missing) /\ UNCHANGED limiter
           ELSE IF Len(name) < MIN_NAME_LEN
             THEN /\ Return(p, 400, "Name must be at least 2 characters")
                  /\ UNCHANGED limiter
           ELSE IF Len(password) < MIN_PASSWORD_LEN
             THEN /\ Return(p, 400, "Password must be at least 6 characters")
                  /\ UNCHANGED limiter
           ELSE /\ limiter' = [limiter EXCEPT ![client_ip] = recorded]
                /\ IF is_rate_limited(recorded, now)
                     THEN Reply(p, RateLimited)
                   ELSE IF existing # NoId /\ ~Replaceable(Row(users, existing))
                     THEN Reply(p, DuplicateAccount)
                   ELSE IF existing # NoId
                     THEN Goto(p, "signup_delete", l)
                   ELSE Goto(p, "signup_scan", l)
        /\ UNCHANGED <<users, nextId, now, sock, cmp, sess>>

\* Lines 32-68 up to the SELECT by email: validation, the rate limit, the
\* recording of the attempt and the look-up of the email, which ends the
\* request or leads to the delete or to the scan.
SignupBegin(p, rawName, rawEmail, password, face_image, client_ip) ==
    LET missing == MissingField(rawName, rawEmail, password, face_image)
        name == Strip(rawName)
        email == NormalizeEmail(rawEmail)
        existing == FindByEmail(users, email)
        l == [NoLoc EXCEPT !.name = name, !.email = email,
                           !.password = password, !.face_image = face_image,
                           !.uid = existing]
    IN  /\ Idle(p)
        /\ nextId + PendingInserts <= MaxId
        /\ IF missing # ""
             THEN Return(p, 400, missing) /\ UNCHANGED limiter
           ELSE IF Len(name) < MIN_NAME_LEN
             THEN /\ Return(p, 400, "Name must be at least 2 characters")
                  /\ UNCHANGED limiter
           ELSE IF Len(password) < MIN_PASSWORD_LEN
             THEN /\ Return(p, 400, "Password must be at least 6 characters")
                  /\ UNCHANGED limiter
           ELSE IF is_rate_limited(limiter[client_ip], now)
             THEN Reply(p, RateLimited) /\ UNCHANGED limiter
           ELSE /\ limiter' = [limiter EXCEPT
                                 ![client_ip] = record_attempt(@, now)]
                /\ IF existing # NoId /\ ~Replaceable(Row(users, existing))
                     THEN Reply(p, DuplicateAccount)
                   ELSE IF existing # NoId
                     THEN Goto(p, "signup_delete", l)
                   ELSE Goto(p, "signup_scan", l)
        /\ UNCHANGED <<users, nextId, now, sock, cmp, sess>>

\* Variant: the old account is left in the table.
SignupDeleteSkipped(p) ==
    /\ pc[p] = "signup_delete" /\ resp = NoResponse
    /\ Goto(p, "signup_scan", [loc[p] EXCEPT !.uid = NoId])
    /\ UNCHANGED <<users, nextId, now, sock, cmp, sess, limiter>>

\* Variant: after the delete the handler inserts at once, without extraction
\* and duplicate scan.
SignupDeleteThenPersist(p) ==
    /\ pc[p] = "signup_delete" /\ resp = NoResponse
    /\ users' = DeleteRow(users, loc[p].uid)
    /\ Goto(p, "signup_persist", [loc[p] EXCEPT !.uid = NoId])
    /\ UNCHANGED <<nextId, now, sock, cmp, sess, limiter>>

\* Lines 67-68: db.session.delete(existing_user); db.session.commit().
\* A row that is already gone makes the DELETE match nothing.
SignupDelete(p) ==
    /\ pc[p] = "signup_delete" /\ resp = NoResponse
    /\ users' = DeleteRow(users, loc[p].uid)
    /\ Goto(p, "signup_scan", [loc[p] EXCEPT !.uid = NoId])
    /\ UNCHANGED <<nextId, now, sock, cmp, sess, limiter>>

\* Variant: the scan looks at the verified accounts only.
FaceAlreadyVerified(table, embedding) ==
    \E u \in table :
        /\ u.is_verified
        /\ is_same_person(embedding, get_embedding(u.face_embedding))

\* Lines 76-86: some row of User.query.all() holds the same person.
FaceAlreadyRegistered(table, embedding) ==
    \E u \in table : is_same_person(embedding, get_embedding(u.face_embedding))

\* Lines 70-86: extract the embedding, then scan all rows for the same face.
SignupScan(p) ==
    \E r \in Extractions(loc[p].face_image) :
        /\ pc[p] = "signup_scan" /\ resp = NoResponse
        /\ IF r.embedding = None
             THEN Return(p, 400, r.error)
           ELSE IF FaceAlreadyRegistered(users, r.embedding)
             THEN Reply(p, DuplicateIdentity)
           ELSE Goto(p, "signup_persist", [loc[p] EXCEPT !.embedding = r.embedding])
        /\ UNCHANGED <<users, nextId, now, sock, cmp, sess, limiter>>

\* Variant: the table has no unique index on the email.
EmailNeverTaken(table, email) == FALSE

\* The unique index on users.email
EmailTaken(table, email) == \E u \in table : u.email = email

\* Variant: the account is committed only when the mail has gone out.
SignupPersistRollsBack(p) ==
    /\ pc[p] = "signup_persist" /\ resp = NoResponse
    /\ IF EmailTaken(users, loc[p].email)
         THEN /\ Reply(p, InternalError)
              /\ UNCHANGED <<users, nextId>>
         ELSE \E otp_code \in Codes : \E sent \in EmailResults :
                /\ users' = IF sent = "sent"
                               THEN users \cup {NewUser(nextId, loc[p], otp_code, now)}
                               ELSE users
                /\ nextId' = nextId + 1
                /\ Respond(p, SignupOk,
                           send_otp_email(loc[p].email, loc[p].name, otp_code, sent),
                           NoPush)
    /\ UNCHANGED <<now, sock, cmp, sess, limiter>>

\* Lines 88-145: add, flush, bind the one-time code, commit, send the code.
\* The row is invisible to other requests until the commit, so the INSERT
\* takes effect at the commit; a violated unique index raises, which rolls
\* back and answers 500.  Line 129 passes the name where send_otp_email
\* takes the code and the code where it takes the name.
SignupPersist(p) ==
    /\ pc[p] = "signup_persist" /\ resp = NoResponse
    /\ IF EmailTaken(users, loc[p].email)
         THEN /\ Reply(p, InternalError)
              /\ UNCHANGED <<users, nextId>>
         ELSE \E otp_code \in Codes : \E sent \in EmailResults :
                /\ users' = users \cup {NewUser(nextId, loc[p], otp_code, now)}
                /\ nextId' = nextId + 1
                /\ Respond(p, SignupOk,
                           send_otp_email(loc[p].email, loc[p].name, otp_code, sent),
                           NoPush)
    /\ UNCHANGED <<now, sock, cmp, sess, limiter>>

----------------------------------------------------------------------------
(* POST /verify-otp *)

\* Variant: the code expires at its expiry time, not after it.
OtpExpiredEarly(u, t) == u.otp_expires_at = NoTime \/ t >= u.otp_expires_at

\* Line 168: not user.otp_expires_at or datetime.utcnow() > user.otp_expires_at
OtpExpired(u, t) == u.otp_expires_at = NoTime \/ t > u.otp_expires_at

\* Variant: the account is activated and keeps its code.
ActivateKeepsCode(u) == [u EXCEPT !.is_verified = TRUE]

\* Variant: the code is cleared and the account is not activated.
ActivateForgetsFlag(u) == [u EXCEPT !.otp_hash = None, !.otp_expires_at = NoTime]

\* Lines 176-178
Activate(u) ==
    [u EXCEPT !.is_verified = TRUE, !.otp_hash = None, !.otp_expires_at = NoTime]

\* Variant: a failed attempt on a pending account uses the code up.
VerifyOtpBeginBurnsCode(p, rawEmail, rawOtp) ==
    LET email == NormalizeEmail(rawEmail)
        otp_code == Strip(rawOtp)
        id == FindByEmail(users, email)
        burnt == [Row(users, id) EXCEPT !.otp_hash = None]
    IN  /\ Idle(p)
        /\ IF rawEmail = None \/ rawOtp = None
             THEN Return(p, 400, "Email and OTP are required") /\ UNCHANGED users
           ELSE IF id = NoId
             THEN Reply(p, NotFound) /\ UNCHANGED users
           ELSE IF Row(users, id).is_verified
             THEN Reply(p, AlreadyVerified) /\ UNCHANGED users
           ELSE IF OtpExpired(Row(users, id), now)
             THEN Reply(p, Expired) /\ users' = UpdateRow(users, id, burnt)
           ELSE IF ~verify_otp(otp_code, Row(users, id).otp_hash)
             THEN Reply(p, InvalidCode) /\ users' = UpdateRow(users, id, burnt)
           ELSE /\ Goto(p, "verify_commit", [NoLoc EXCEPT !.email = email, !.uid = id])
                /\ UNCHANGED users
        /\ UNCHANGED <<nextId, now, sock, cmp, sess, limiter>>

\* Lines 151-173: the checks on the row read by email.
VerifyOtpBegin(p, rawEmail, rawOtp) ==
    LET email == NormalizeEmail(rawEmail)
        otp_code == Strip(rawOtp)
        id == FindByEmail(users, email)
    IN  /\ Idle(p)
        /\ IF rawEmail = None \/ rawOtp = None
             THEN Return(p, 400, "Email and OTP are required")
           ELSE IF id = NoId
             THEN Reply(p, NotFound)
           ELSE IF Row(users, id).is_verified
             THEN Reply(p, AlreadyVerified)
           ELSE IF OtpExpired(Row(users, id), now)
             THEN Reply(p, Expired)
           ELSE IF ~verify_otp(otp_code, Row(users, id).otp_hash)
             THEN Reply(p, InvalidCode)
           ELSE Goto(p, "verify_commit", [NoLoc EXCEPT !.email = email, !.uid = id])
        /\ UNCHANGED <<users, nextId, now, sock, cmp, sess, limiter>>

\* Lines 176-191: the UPDATE of the row by primary key and the commit.  A row
\* deleted in the meantime makes the UPDATE match nothing, which raises.
VerifyOtpCommit(p) ==
    /\ pc[p] = "verify_commit" /\ resp = NoResponse
    /\ IF HasRow(users, loc[p].uid)
         THEN /\ users' = UpdateRow(users, loc[p].uid, Activate(Row(users, loc[p].uid)))
              /\ Reply(p, VerifyOk)
         ELSE /\ Reply(p, InternalError)
              /\ UNCHANGED users
    /\ UNCHANGED <<nextId, now, sock, cmp, sess, limiter>>

----------------------------------------------------------------------------
(* POST /resend-otp *)

\* Variant: the new code keeps the old expiry.
NewOtpKeepsExpiry(u, otp_code, t) == [u EXCEPT !.otp_hash = hash_otp(otp_code)]

\* Lines 376-381
NewOtp(u, otp_code, t) ==
    [u EXCEPT !.otp_hash = hash_otp(otp_code),
              !.otp_expires_at = t + OTP_EXPIRY_MINUTES]

\* Lines 360-373
ResendOtpBegin(p, rawEmail) ==
    LET email == NormalizeEmail(rawEmail)
        id == FindByEmail(users, email)
    IN  /\ Idle(p)
        /\ IF rawEmail = None
             THEN Return(p, 400, "Email is required")
           ELSE IF id = NoId
             THEN Reply(p, NotFound)
           ELSE IF Row(users, id).is_verified
             THEN Reply(p, AlreadyVerified)
           ELSE Goto(p, "resend_commit", [NoLoc EXCEPT !.email = email, !.uid = id])
        /\ UNCHANGED <<users, nextId, now, sock, cmp, sess, limiter>>

\* Lines 375-396: draw the code, UPDATE the two columns by primary key,
\* commit, send the code; an exception out of send_otp_email answers 500
\* after the commit.  Line 386 passes the name where send_otp_email
\* takes the code, as line 129 does.
ResendOtpCommit(p) ==
    /\ pc[p] = "resend_commit" /\ resp = NoResponse
    /\ IF HasRow(users, loc[p].uid)
         THEN \E otp_code \in Codes : \E sent \in EmailResults :
                LET u == Row(users, loc[p].uid)
                IN  /\ users' = UpdateRow(users, u.id, NewOtp(u, otp_code, now))
                    /\ Respond(p, IF sent = "raised" THEN MailError ELSE ResendOk,
                               send_otp_email(loc[p].email, u.name, otp_code, sent),
                               NoPush)
         ELSE /\ Reply(p, InternalError)
              /\ UNCHANGED users
    /\ UNCHANGED <<nextId, now, sock, cmp, sess, limiter>>

----------------------------------------------------------------------------
(* POST /login, POST /login-password, POST /logout, GET /me *)

\* Lines 229-232 and 291-294: session['user_id'], session['email']
NewSession(u) == [user_id |-> u.id, email |-> u.email]

\* Variant: an unverified account may log in.
CanLoginUnverified(u) == TRUE

\* Lines 212 and 280: only a verified account may log in.
CanLogin(u) == u.is_verified

\* Variant: every face is taken for the face of the account.
FaceMatchesAnyone(u, embedding) == TRUE

\* Lines 221-222: the submitted face against the stored embedding.
FaceMatches(u, embedding) == is_same_person(embedding, get_embedding(u.face_embedding))

\* Variant: the embedding is extracted before the account is looked up.
LoginBeginExtractsFirst(p, rawEmail, face_image) ==
    LET email == NormalizeEmail(rawEmail)
        id == FindByEmail(users, email)
    IN  \E r \in Extractions(face_image) :
        /\ Idle(p)
        /\ IF rawEmail = None \/ face_image = None
             THEN Return(p, 400, "Email and face image are required")
           ELSE IF r.embedding = None
             THEN Return(p, 400, "Face processing failed")
           ELSE IF id = NoId
             THEN Reply(p, NotFound)
           ELSE IF ~CanLogin(Row(users, id))
             THEN Reply(p, NotVerified)
           ELSE IF ~FaceMatches(Row(users, id), r.embedding)
             THEN Reply(p, FaceMismatch)
           ELSE Goto(p, "login_commit",
                     [NoLoc EXCEPT !.email = email, !.uid = id,
                                   !.face_image = face_image])
        /\ UNCHANGED <<users, nextId, now, sock, cmp, sess, limiter>>

\* Lines 199-223: the checks on the row read by email and on the face.
LoginBegin(p, rawEmail, face_image) ==
    LET email == NormalizeEmail(rawEmail)
        id == FindByEmail(users, email)
    IN  \E r \in Extractions(face_image) :
        /\ Idle(p)
        /\ IF rawEmail = None \/ face_image = None
             THEN Return(p, 400, "Email and face image are required")
           ELSE IF id = NoId
             THEN Reply(p, NotFound)
           ELSE IF ~CanLogin(Row(users, id))
             THEN Reply(p, NotVerified)
           ELSE IF r.embedding = None
             THEN Return(p, 400, "Face processing failed")
           ELSE IF ~FaceMatches(Row(users, id), r.embedding)
             THEN Reply(p, FaceMismatch)
           ELSE Goto(p, "login_commit",
                     [NoLoc EXCEPT !.email = email, !.uid = id,
                                   !.face_image = face_image])
        /\ UNCHANGED <<users, nextId, now, sock, cmp, sess, limiter>>

\* Variant: an email without an account is answered 404.
LoginPasswordBeginNamesUnknown(p, rawEmail, password) ==
    LET email == NormalizeEmail(rawEmail)
        id == FindByEmail(users, email)
    IN  /\ Idle(p)
        /\ IF rawEmail = None \/ password = None
             THEN Return(p, 400, "Email and password are required")
           ELSE IF id = NoId
             THEN Reply(p, NotFound)
           ELSE IF ~CanLogin(Row(users, id))
             THEN Reply(p, NotVerified)
           ELSE IF ~verify_password(password, Row(users, id).password_hash)
             THEN Reply(p, InvalidCredentials)
           ELSE Goto(p, "login_password_commit",
                     [NoLoc EXCEPT !.email = email, !.uid = id,
                                   !.password = password])
        /\ UNCHANGED <<users, nextId, now, sock, cmp, sess, limiter>>

\* Variant: a wrong password ends the session the caller had.
LoginPasswordBeginLogsOut(p, rawEmail, password) ==
    LET email == NormalizeEmail(rawEmail)
        id == FindByEmail(users, email)
    IN  /\ Idle(p)
        /\ IF rawEmail = None \/ password = None
             THEN Return(p, 400, "Email and password are required") /\ UNCHANGED sess
           ELSE IF id = NoId
             THEN Reply(p, InvalidCredentials) /\ UNCHANGED sess
           ELSE IF ~CanLogin(Row(users, id))
             THEN Reply(p, NotVerified) /\ UNCHANGED sess
           ELSE IF ~verify_password(password, Row(users, id).password_hash)
             THEN /\ Reply(p, InvalidCredentials)
                  /\ sess' = [sess EXCEPT ![p] = NoSession]
           ELSE /\ Goto(p, "login_password_commit",
                        [NoLoc EXCEPT !.email = email, !.uid = id,
                                      !.password = password])
                /\ UNCHANGED sess
        /\ UNCHANGED <<users, nextId, now, sock, cmp, limiter>>

\* Lines 267-285
LoginPasswordBegin(p, rawEmail, password) ==
    LET email == NormalizeEmail(rawEmail)
        id == FindByEmail(users, email)
    IN  /\ Idle(p)
        /\ IF rawEmail = None \/ password = None
             THEN Return(p, 400, "Email and password are required")
           ELSE IF id = NoId
             THEN Reply(p, InvalidCredentials)
           ELSE IF ~CanLogin(Row(users, id))
             THEN Reply(p, NotVerified)
           ELSE IF ~verify_password(password, Row(users, id).password_hash)
             THEN Reply(p, InvalidCredentials)
           ELSE Goto(p, "login_password_commit",
                     [NoLoc EXCEPT !.email = email, !.uid = id,
                                   !.password = password])
        /\ UNCHANGED <<users, nextId, now, sock, cmp, sess, limiter>>

\* Lines 226 and 288: user.last_login_at = datetime.utcnow()
StampLogin(u, t) == [u EXCEPT !.last_login_at = t]

\* Lines 225-259: UPDATE last_login_at by primary key, commit, then the
\* session, the notification email and the event for the room of the account.
\* A row deleted in the meantime makes the commit raise before the session is
\* written.
LoginCommit(p) ==
    /\ pc[p] = "login_commit" /\ resp = NoResponse
    /\ IF HasRow(users, loc[p].uid)
         THEN \E sent \in EmailResults : \E emitted \in EmitResults :
                LET u == StampLogin(Row(users, loc[p].uid), now)
                IN  /\ users' = UpdateRow(users, loc[p].uid, u)
                    /\ sess' = [sess EXCEPT ![p] = NewSession(u)]
                    /\ Respond(p, LoginOk,
                               send_login_notification(u.email, u.name, sent),
                               emit("user_login", u.id, emitted))
         ELSE /\ Reply(p, InternalError)
              /\ UNCHANGED <<users, sess>>
    /\ UNCHANGED <<nextId, now, sock, cmp, limiter>>

\* Lines 287-311: UPDATE last_login_at by primary key, commit, then the
\* session and the notification email; no event is emitted.
LoginPasswordCommit(p) ==
    /\ pc[p] = "login_password_commit" /\ resp = NoResponse
    /\ IF HasRow(users, loc[p].uid)
         THEN \E sent \in EmailResults :
                LET u == StampLogin(Row(users, loc[p].uid), now)
                IN  /\ users' = UpdateRow(users, loc[p].uid, u)
                    /\ sess' = [sess EXCEPT ![p] = NewSession(u)]
                    /\ Respond(p, LoginOk,
                               send_login_notification(u.email, u.name, sent),
                               NoPush)
         ELSE /\ Reply(p, InternalError)
              /\ UNCHANGED <<users, sess>>
    /\ UNCHANGED <<nextId, now, sock, cmp, limiter>>

LogoutOk == Response(200, "Logout successful")

\* Lines 316-335: the event for the room of the session's account, if there
\* is a session, then session.clear().
Logout(p) ==
    /\ Idle(p)
    /\ sess' = [sess EXCEPT ![p] = NoSession]
    /\ IF sess[p].user_id # NoId
         THEN \E emitted \in EmitResults :
                Respond(p, LogoutOk, NoMail, emit("user_logout", sess[p].user_id, emitted))
         ELSE Reply(p, LogoutOk)
    /\ UNCHANGED <<users, nextId, now, sock, cmp, limiter>>

\* Lines 340-354
Me(p) ==
    /\ Idle(p)
    /\ IF sess[p].user_id = NoId
         THEN /\ Return(p, 401, "Not authenticated")
              /\ UNCHANGED sess
       ELSE IF ~HasRow(users, sess[p].user_id)
         THEN /\ sess' = [sess EXCEPT ![p] = NoSession]
              /\ Reply(p, NotFound)
         ELSE /\ Return(p, 200, "user")
              /\ UNCHANGED sess
    /\ UNCHANGED <<users, nextId, now, sock, cmp, limiter>>

----------------------------------------------------------------------------
(* The environment *)

(* app/routes/websocket.py *)

\* on_connect, lines 13-29: the handler sees the Flask session the client
\* had when it connected.  With a user_id the connection joins the room of
\* that account and is sent 'connected'; without one it is disconnected.
Connect(p) ==
    /\ resp = NoResponse
    /\ ~sock[p].connected
    /\ sock' = [sock EXCEPT ![p] =
                  IF sess[p].user_id # NoId
                  THEN [connected |-> TRUE, user_id |-> sess[p].user_id,
                        rooms |-> {sess[p].user_id}, event |-> "connected"]
                  ELSE [NoSocket EXCEPT !.event = "disconnect"]]
    /\ UNCHANGED <<users, nextId, now, pc, loc, resp, sess, limiter, mail, push,
                   cmp>>

\* on_join_notifications, lines 39-52
JoinNotifications(p) ==
    /\ resp = NoResponse
    /\ sock[p].connected
    /\ sock' = [sock EXCEPT ![p] =
                  IF sock[p].user_id # NoId
                  THEN [@ EXCEPT !.rooms = @ \cup {sock[p].user_id},
                                 !.event = "notification"]
                  ELSE [NoSocket EXCEPT !.event = "error"]]
    /\ UNCHANGED <<users, nextId, now, pc, loc, resp, sess, limiter, mail, push,
                   cmp>>

\* on_ping, lines 54-57
Ping(p) ==
    /\ resp = NoResponse
    /\ sock[p].connected
    /\ sock' = [sock EXCEPT ![p].event = "pong"]
    /\ UNCHANGED <<users, nextId, now, pc, loc, resp, sess, limiter, mail, push,
                   cmp>>

\* on_disconnect, lines 31-37: the client goes away; the connection leaves
\* its rooms.
Disconnect(p) ==
    /\ resp = NoResponse
    /\ sock[p].connected
    /\ sock' = [sock EXCEPT ![p] = NoSocket]
    /\ UNCHANGED <<users, nextId, now, pc, loc, resp, sess, limiter, mail, push,
                   cmp>>

\* The connections an emitted event is delivered to: those in its room.
Receivers(event) ==
    IF event.result = "emitted"
    THEN {p \in Procs : sock[p].connected /\ event.room \in sock[p].rooms}
    ELSE {}

----------------------------------------------------------------------------
(* POST /validate-face *)

\* face_image.startswith('data:image')
IsDataUrl(face_image) == face_image # None /\ Head(face_image) = "data:image"

\* Variant: the pre-check counts as an attempt of the first address.
ValidateFaceRecordsAttempt(p, face_image) ==
    /\ Idle(p)
    /\ Return(p, 200, "Face validation successful")
    /\ limiter' = [limiter EXCEPT ![Ip1] = record_attempt(@, now)]
    /\ UNCHANGED <<users, nextId, now, sock, cmp, sess>>

\* Lines 399-456
ValidateFace(p, face_image) ==
    \E r \in Extractions(face_image) :
        /\ Idle(p)
        /\ IF face_image = None
             THEN Return(p, 400, "Face image is required")
           ELSE IF ~IsDataUrl(face_image)
             THEN Return(p, 400, "Invalid image format")
           ELSE IF r.embedding = None /\ r.error = "No face detected in image"
             THEN Return(p, 200, "Face validation successful (development mode)")
           ELSE IF r.embedding = None /\ r.error = "Invalid image format"
             THEN Return(p, 400, "Unable to process the image. Please try taking a new photo.")
           ELSE IF r.embedding = None
             THEN Return(p, 400, r.error)
           ELSE Return(p, 200, "Face validation successful")
        /\ UNCHANGED <<users, nextId, now, sock, cmp, sess, limiter>>

\* The payloads sent to the pre-check: none, one that is no data URL, and
\* data URLs of a face, of an undecodable payload and of a picture without a
\* face.
ValidateFaceRequests ==
    {None, ImgB, DataUrl(ImgB), DataUrl(Garbage), DataUrl(Blank)}

----------------------------------------------------------------------------
(* The clients and the clock *)

\* The response reaches the client before anything else happens.
Receive ==
    /\ resp # NoResponse
    /\ resp' = NoResponse
    /\ mail' = NoMail
    /\ push' = NoPush
    /\ UNCHANGED <<users, nextId, now, sock, cmp, pc, loc, sess, limiter>>

\* Time passes.
Tick ==
    /\ resp = NoResponse
    /\ now + TickMinutes <= MaxTicks * TickMinutes
    /\ now' = now + TickMinutes
    /\ UNCHANGED <<users, nextId, pc, loc, resp, sess, limiter, mail, push,
                   sock, cmp>>

\* The request bodies the clients send: every well-formed one, and for each
\* field one body where it is missing or malformed.
SignupRequests ==
    {<<GoodName, e, w, f, Ip1>> : e \in RawEmails, w \in Passwords, f \in Images}
    \cup {<<None, EmailB, Pw1, ImgB, Ip1>>, <<ShortName, EmailB, Pw1, ImgB, Ip1>>,
          <<GoodName, None, Pw1, ImgB, Ip1>>, <<GoodName, EmailB, None, ImgB, Ip1>>,
          <<GoodName, EmailB, ShortPw, ImgB, Ip1>>, <<GoodName, EmailB, Pw1, None, Ip1>>}

\* The signups sent where the rate limiter is exercised: from two addresses,
\* with a face, with an undecodable image, with a name that is too short.
RateRequests ==
    {<<n, EmailB, Pw1, f, k>> : n \in {GoodName, ShortName},
                                f \in {ImgB, Garbage}, k \in ClientKeys}

VerifyOtpRequests ==
    (RawEmails \X OtpInputs) \cup {<<None, Code1>>, <<EmailB, None>>}

ResendOtpRequests == RawEmails \cup {None}

LoginRequests ==
    (RawEmails \X Images) \cup {<<None, ImgB>>, <<EmailB, None>>}

LoginPasswordRequests ==
    (RawEmails \X Passwords) \cup {<<None, Pw1>>, <<EmailB, None>>}

\* A client sends an enrollment request; the handler runs up to its first
\* commit.
EnrollBegin(p) ==
    \/ \E r \in SignupRequests :
          /\ limiter[r[5]].attempts < MaxSignups
          /\ SignupBegin(p, r[1], r[2], r[3], r[4], r[5])
    \/ \E r \in VerifyOtpRequests : VerifyOtpBegin(p, r[1], r[2])
    \/ \E e \in ResendOtpRequests : ResendOtpBegin(p, e)

\* A client sends a session request.
SessionBegin(p) ==
    \/ \E r \in LoginRequests : LoginBegin(p, r[1], r[2])
    \/ \E r \in LoginPasswordRequests : LoginPasswordBegin(p, r[1], r[2])
    \/ Logout(p)
    \/ Me(p)

\* An enrollment handler in flight takes its next step.
EnrollContinue(p) ==
    \/ SignupDelete(p)
    \/ SignupScan(p)
    \/ SignupPersist(p)
    \/ VerifyOtpCommit(p)
    \/ ResendOtpCommit(p)

\* No other client has a request in flight.
Alone(p) == \A q \in Procs \ {p} : pc[q] = "idle"

\* Requests run to completion, one at a time.
Next ==
    \/ \E p \in Procs : Alone(p) /\ EnrollBegin(p)
    \/ \E p \in Procs : Alone(p) /\ SessionBegin(p)
    \/ \E p \in Procs : EnrollContinue(p)
    \/ \E p \in Procs : LoginCommit(p)
    \/ \E p \in Procs : LoginPasswordCommit(p)
    \/ Receive
    \/ Tick

Spec == Init /\ [][Next]_vars

\* The enrollment requests alone, run to completion one at a time.
EnrollNext ==
    \/ \E p \in Procs : Alone(p) /\ EnrollBegin(p)
    \/ \E p \in Procs : EnrollContinue(p)
    \/ Receive
    \/ Tick

EnrollSpec == Init /\ [][EnrollNext]_vars

\* The enrollment requests of different clients interleave at their database
\* round trips.
ConcNext ==
    \/ \E p \in Procs : EnrollBegin(p)
    \/ \E p \in Procs : EnrollContinue(p)
    \/ Receive
    \/ Tick

ConcSpec == Init /\ [][ConcNext]_vars

\* The signups sent where the logins are exercised: both emails, two people,
\* one password.
LoginSignupRequests ==
    {<<GoodName, e, Pw1, f, Ip1>> : e \in RawEmails, f \in {ImgA1, ImgB}}

\* A client registers or verifies an account that the logins then use.
LoginEnrollBegin(p) ==
    \/ \E r \in LoginSignupRequests :
          /\ limiter[r[5]].attempts < MaxSignups
          /\ SignupBegin(p, r[1], r[2], r[3], r[4], r[5])
    \/ \E r \in VerifyOtpRequests : VerifyOtpBegin(p, r[1], r[2])

LoginEnrollContinue(p) ==
    \/ SignupDelete(p)
    \/ SignupScan(p)
    \/ SignupPersist(p)
    \/ VerifyOtpCommit(p)

\* Signup, verify-otp and the session requests, run to completion one at a
\* time.
SessionNext ==
    \/ \E p \in Procs : Alone(p) /\ LoginEnrollBegin(p)
    \/ \E p \in Procs : Alone(p) /\ SessionBegin(p)
    \/ \E p \in Procs : \E f \in ValidateFaceRequests : Alone(p) /\ ValidateFace(p, f)
    \/ \E p \in Procs : LoginEnrollContinue(p)
    \/ \E p \in Procs : LoginCommit(p)
    \/ \E p \in Procs : LoginPasswordCommit(p)
    \/ Receive
    \/ Tick

SessionSpec == Init /\ [][SessionNext]_vars

\* Time passes, by more than half a rate-limit window.
RateTick ==
    /\ resp = NoResponse
    /\ now + RateTickMinutes <= MaxTicks * RateTickMinutes
    /\ now' = now + RateTickMinutes
    /\ UNCHANGED <<users, nextId, pc, loc, resp, sess, limiter, mail, push,
                   sock, cmp>>

\* A client sends a signup from one of the addresses.
RateBegin(p) ==
    \E r \in RateRequests : SignupBegin(p, r[1], r[2], r[3], r[4], r[5])

\* A signup in flight takes its next step.
RateContinue(p) ==
    \/ SignupDelete(p)
    \/ SignupScan(p)
    \/ SignupPersist(p)

\* Signups alone, run to completion one at a time, over rate-limit windows.
RateNext ==
    \/ \E p \in Procs : Alone(p) /\ RateBegin(p)
    \/ \E p \in Procs : RateContinue(p)
    \/ Receive
    \/ RateTick

RateSpec == Init /\ [][RateNext]_vars

\* The embeddings handed to the comparator: every vector of small integer
\* components, the zero vector among them.
Components == (0 - 1)..MaxComponent
Vectors == {<<x, y, z>> : x \in Components, y \in Components, z \in Components}

\* The comparator is about to be called on two embeddings.
CompareInit ==
    /\ users = {}
    /\ nextId = 1
    /\ now = 0
    /\ pc = [p \in Procs |-> "idle"]
    /\ loc = [p \in Procs |-> NoLoc]
    /\ resp = NoResponse
    /\ sess = [p \in Procs |-> NoSession]
    /\ limiter = [k \in ClientKeys |-> NoRecord]
    /\ mail = NoMail
    /\ push = NoPush
    /\ sock = [p \in Procs |-> NoSocket]
    /\ \E a \in Vectors : \E b \in Vectors :
          cmp = [NoCall EXCEPT !.embedding1 = a, !.embedding2 = b]

\* compare_embeddings and is_same_person are called on the two embeddings.
Compare ==
    /\ ~cmp.called
    /\ cmp' = [cmp EXCEPT
                 !.called = TRUE,
                 !.distance = compare_embeddings(cmp.embedding1, cmp.embedding2),
                 !.same = is_same_person(cmp.embedding1, cmp.embedding2)]
    /\ UNCHANGED <<users, nextId, now, pc, loc, resp, sess, limiter, mail, push,
                   sock>>

CompareSpec == CompareInit /\ [][Compare]_vars

\* Two verified accounts, as signup and verify-otp leave them.
Enrolled(id, email, embedding) ==
    Activate(NewUser(id, [NoLoc EXCEPT !.name = GoodName, !.email = email,
                                       !.password = Pw1, !.embedding = embedding],
                     Code1, 0))

SocketInit ==
    /\ users = {Enrolled(1, EmailA, EmbC1), Enrolled(2, EmailB, EmbB)}
    /\ nextId = 3
    /\ now = 0
    /\ pc = [p \in Procs |-> "idle"]
    /\ loc = [p \in Procs |-> NoLoc]
    /\ resp = NoResponse
    /\ sess = [p \in Procs |-> NoSession]
    /\ limiter = [k \in ClientKeys |->
                    IF k = Ip1
                    THEN record_attempt(record_attempt(NoRecord, 0), 0)
                    ELSE NoRecord]
    /\ mail = NoMail
    /\ push = NoPush
    /\ sock = [p \in Procs |-> NoSocket]
    /\ cmp = NoCall

\* Logins, logouts and socket events of two clients.  The face logins bring
\* the face of the first account, a face at distance 0.5 of it, or the face
\* of the second account.
SocketNext ==
    \/ \E p \in Procs : \E r \in RawEmails \X {ImgC1, ImgC2, ImgB} :
          Alone(p) /\ LoginBegin(p, r[1], r[2])
    \/ \E p \in Procs : \E r \in LoginPasswordRequests :
          Alone(p) /\ LoginPasswordBegin(p, r[1], r[2])
    \/ \E p \in Procs : LoginCommit(p)
    \/ \E p \in Procs : LoginPasswordCommit(p)
    \/ \E p \in Procs : Alone(p) /\ Logout(p)
    \/ \E p \in Procs : Connect(p)
    \/ \E p \in Procs : JoinNotifications(p)
    \/ \E p \in Procs : Ping(p)
    \/ \E p \in Procs : Disconnect(p)
    \/ Receive

SocketSpec == SocketInit /\ [][SocketNext]_vars

\* One request of every other endpoint, for the email the signups use.
OtherBegin(p) ==
    \/ \E c \in Codes : VerifyOtpBegin(p, EmailB, c)
    \/ ResendOtpBegin(p, EmailB)
    \/ LoginBegin(p, EmailB, ImgB)
    \/ LoginPasswordBegin(p, EmailB, Pw1)
    \/ Logout(p)
    \/ Me(p)
    \/ ValidateFace(p, DataUrl(ImgB))

OtherContinue(p) ==
    \/ VerifyOtpCommit(p)
    \/ ResendOtpCommit(p)
    \/ LoginCommit(p)
    \/ LoginPasswordCommit(p)

\* Signups from two addresses over rate-limit windows, next to the other
\* endpoints, run to completion one at a time.
LimiterNext ==
    \/ \E p \in Procs : Alone(p) /\ RateBegin(p)
    \/ \E p \in Procs : RateContinue(p)
    \/ \E p \in Procs : Alone(p) /\ OtherBegin(p)
    \/ \E p \in Procs : OtherContinue(p)
    \/ Receive
    \/ RateTick

LimiterSpec == Init /\ [][LimiterNext]_vars

\* Signup bodies that differ in what the input checks and the extractor make
\* of them.
IntakeRequests ==
    {<<n, e, w, f, Ip1>> : n \in {GoodName, ShortName}, e \in {EmailB, BadEmail},
                           w \in {Pw1, ShortPw}, f \in {ImgB, Garbage, Blank}}

IntakeBegin(p) ==
    \E r \in IntakeRequests :
        /\ limiter[r[5]].attempts < MaxSignups
        /\ SignupBegin(p, r[1], r[2], r[3], r[4], r[5])

\* Signups alone, run to completion one at a time.
IntakeNext ==
    \/ \E p \in Procs : Alone(p) /\ IntakeBegin(p)
    \/ \E p \in Procs : RateContinue(p)
    \/ Receive

IntakeSpec == Init /\ [][IntakeNext]_vars

----------------------------------------------------------------------------
(* Properties *)

Stored(u) == get_embedding(u.face_embedding)

\* C1: with requests run to completion, every verified account has neither a
\* one-time-code hash nor a one-time-code expiry.
VerifiedHasNoCode ==
    \A u \in users :
        u.is_verified => (u.otp_hash = None /\ u.otp_expires_at = NoTime)

\* A verified account that has logged in, next to a pending one.
VerifiedHasNoCodeWitness ==
    /\ \E u \in users : u.is_verified /\ u.last_login_at # NoTime
    /\ \E u \in users : ~u.is_verified /\ u.otp_hash # None

\* C2: a signup whose embedding is the same person as the embedding of an
\* account under another email, verified or not, is answered DuplicateIdentity
\* and leaves the table as it is: no account, no one-time code.
DuplicateFaceRejected ==
    [][\A p \in Procs :
         LET e == get_face_embedding(loc[p].face_image).embedding
         IN  ( /\ pc[p] = "signup_scan"
               /\ pc'[p] # "signup_scan"
               /\ e # None
               /\ \E u \in users :
                     u.email # loc[p].email /\ is_same_person(e, Stored(u)) )
             => ( /\ resp' = DuplicateIdentity
                  /\ pc'[p] = "idle"
                  /\ users' = users
                  /\ nextId' = nextId )]_vars

\* A signup was turned down for its face while the only account is unverified.
DuplicateFaceRejectedWitness ==
    /\ resp = DuplicateIdentity
    /\ users # {}
    /\ \A u \in users : ~u.is_verified

\* C3: under concurrent signups the table never holds two accounts with
\* different emails whose embeddings are the same person.
OneAccountPerFace ==
    \A u, v \in users :
        u.email # v.email => ~is_same_person(Stored(u), Stored(v))

\* C4: a verified account stays in the table and stays verified, with the
\* password and the face it was registered with, whatever request comes next.
VerifiedIsForever ==
    [][\A u \in users :
         u.is_verified =>
           \E v \in users' :
               /\ v.id = u.id
               /\ v.email = u.email
               /\ v.is_verified
               /\ v.password_hash = u.password_hash
               /\ v.face_embedding = u.face_embedding]_vars

\* A signup for the email of a verified account was turned down.
VerifiedIsForeverWitness ==
    /\ resp = DuplicateAccount
    /\ \E u \in users : u.is_verified

AccountsOf(email) == {u \in users : u.email = email}

\* C5: verify-otp answers NotFound when no account has the email, else
\* AlreadyVerified when the account is verified, else Expired when no expiry
\* is pending or now > expiry, else InvalidCode when the code does not match
\* the stored hash; otherwise it succeeds, and the account is then verified
\* with its code hash and expiry cleared.
VerifyOtpPrecedence ==
    [][/\ \A p \in Procs : \A r \in RawEmails \X OtpInputs :
            VerifyOtpBegin(p, r[1], r[2]) =>
              LET accts == AccountsOf(NormalizeEmail(r[1]))
              IN  IF accts = {}
                    THEN resp' = NotFound
                    ELSE \A u \in accts :
                           IF u.is_verified
                             THEN resp' = AlreadyVerified
                           ELSE IF u.otp_expires_at = NoTime \/ now > u.otp_expires_at
                             THEN resp' = Expired
                           ELSE IF u.otp_hash # hash_otp(Strip(r[2]))
                             THEN resp' = InvalidCode
                           ELSE pc'[p] = "verify_commit" /\ loc'[p].uid = u.id
       /\ \A p \in Procs :
            (pc[p] = "verify_commit" /\ pc'[p] # "verify_commit") =>
              /\ resp' = VerifyOk
              /\ \E v \in users' :
                    /\ v.id = loc[p].uid
                    /\ v.is_verified
                    /\ v.otp_hash = None
                    /\ v.otp_expires_at = NoTime]_vars

\* A code was accepted after the clock had moved on.
VerifyOtpPrecedenceWitness ==
    /\ resp = VerifyOk
    /\ now > 0
    /\ \E u \in users : u.is_verified /\ u.otp_hash = None

\* C6: the first verify-otp with the correct, unexpired code leaves the
\* account verified; a verify-otp for a verified account, with whatever code,
\* is answered AlreadyVerified and changes nothing.
SecondVerifyIsAlreadyVerified ==
    [][/\ \A p \in Procs :
            (pc[p] = "verify_commit" /\ pc'[p] = "idle") =>
              \E v \in users' : v.id = loc[p].uid /\ v.is_verified
       /\ \A p \in Procs : \A r \in RawEmails \X OtpInputs :
            ( /\ VerifyOtpBegin(p, r[1], r[2])
              /\ \E u \in AccountsOf(NormalizeEmail(r[1])) : u.is_verified )
            => ( /\ resp' = AlreadyVerified
                 /\ pc'[p] = "idle"
                 /\ UNCHANGED <<users, nextId, sess>> )]_vars

\* The only account is verified and a further submit was turned down.
SecondVerifyIsAlreadyVerifiedWitness ==
    /\ resp = AlreadyVerified
    /\ users # {}
    /\ \A u \in users : u.is_verified /\ u.last_login_at = NoTime

\* C7: a verify-otp answered Expired or InvalidCode changes no account; after
\* InvalidCode the pending code is still there and still unexpired, so that
\* the correct code is accepted afterwards.
FailedVerifyChangesNothing ==
    [][/\ resp' \in {Expired, InvalidCode} =>
            /\ UNCHANGED <<users, nextId, sess>>
            /\ \E u \in users' : ~u.is_verified
       /\ resp' = InvalidCode =>
            \E u \in users' : \E c \in Codes :
                /\ ~u.is_verified
                /\ now' <= u.otp_expires_at
                /\ u.otp_hash = hash_otp(c)]_vars

\* A submit after the expiry was turned down, the account is still pending.
FailedVerifyChangesNothingWitness ==
    /\ resp = Expired
    /\ \E u \in users : ~u.is_verified /\ now > u.otp_expires_at /\ u.otp_hash # None

\* What resend-otp does to a pending account: it stays unverified, its code
\* hash is the hash of one drawn code, its expiry is OTP_EXPIRY_MINUTES from
\* now, nothing else changes.
ResendOtpEffect ==
    /\ \A p \in Procs : \A e \in RawEmails :
         ResendOtpBegin(p, e) =>
           LET accts == AccountsOf(NormalizeEmail(e))
           IN  /\ users' = users
               /\ IF accts = {}
                     THEN resp' = NotFound
                     ELSE \A u \in accts :
                            IF u.is_verified
                              THEN resp' = AlreadyVerified
                              ELSE pc'[p] = "resend_commit" /\ loc'[p].uid = u.id
    /\ \A p \in Procs :
         (pc[p] = "resend_commit" /\ pc'[p] # "resend_commit") =>
           /\ resp' = ResendOk
           /\ \E u \in users : \E c \in Codes :
                 /\ u.id = loc[p].uid
                 /\ ~u.is_verified
                 /\ users' = UpdateRow(users, u.id,
                                       [u EXCEPT !.otp_hash = hash_otp(c),
                                                 !.otp_expires_at = now + OTP_EXPIRY_MINUTES])
           /\ \A v \in users' :
                 Cardinality({c \in Codes : verify_otp(c, v.otp_hash)}) <= 1

\* After a resend no code that the old hash accepted is accepted any more.
ResendOtpOldCodeDead ==
    \A p \in Procs :
        (pc[p] = "resend_commit" /\ pc'[p] # "resend_commit") =>
          \A u \in users : \A v \in users' :
              u.id = v.id =>
                \A c \in Codes :
                    verify_otp(c, u.otp_hash) => ~verify_otp(c, v.otp_hash)

\* C8, as claimed: resend-otp is turned down with NotFound or AlreadyVerified
\* and changes nothing unless the account is pending; then it overwrites the
\* code hash and the expiry, and the code issued before is no longer accepted.
ResendOtpReplacesCode == [][ResendOtpEffect /\ ResendOtpOldCodeDead]_vars

\* C8, amended: as above, with at most one code accepted at a time; the code
\* issued before is accepted afterwards only when the same code is drawn again.
ResendOtpOverwritesCode == [][ResendOtpEffect]_vars

\* A resend after the expiry of the first code gave the account a later expiry.
ResendOtpOverwritesCodeWitness ==
    /\ resp = ResendOk
    /\ now > 0
    /\ \E u \in users : ~u.is_verified /\ u.otp_expires_at = now + OTP_EXPIRY_MINUTES

WellFormed(r) ==
    /\ r[1] = GoodName
    /\ r[2] \in RawEmails
    /\ r[3] \in Passwords
    /\ r[4] \in Images

\* C9: a signup, let through by the rate limiter, for the email of a verified
\* account is answered DuplicateAccount and changes no account; a signup for
\* the email of an unverified account deletes that account and, when it
\* succeeds, leaves under that email one new unverified account with a new
\* id, made of the password, the face and a one-time code of this request.
ReRegistrationReplaces ==
    [][/\ \A p \in Procs : \A r \in SignupRequests :
            ( /\ SignupBegin(p, r[1], r[2], r[3], r[4], r[5])
              /\ WellFormed(r)
              /\ ~is_rate_limited(limiter[r[5]], now) ) =>
              LET accts == AccountsOf(NormalizeEmail(r[2]))
              IN  /\ users' = users
                  /\ \A u \in accts :
                        IF u.is_verified
                          THEN resp' = DuplicateAccount /\ pc'[p] = "idle"
                          ELSE pc'[p] = "signup_delete" /\ loc'[p].uid = u.id
       /\ \A p \in Procs :
            (pc[p] = "signup_delete" /\ pc'[p] # "signup_delete") =>
              /\ users' = users \ AccountsOf(loc[p].email)
              /\ \E u \in users : u.id = loc[p].uid /\ u.email = loc[p].email
              /\ pc'[p] = "signup_scan"
       /\ \A p \in Procs :
            (pc[p] = "signup_persist" /\ pc'[p] # "signup_persist") =>
              /\ resp' = SignupOk
              /\ AccountsOf(loc[p].email) = {}
              /\ \E c \in Codes :
                    users' = users \cup
                      {[id |-> nextId,
                        name |-> loc[p].name,
                        email |-> loc[p].email,
                        password_hash |-> hash_password(loc[p].password),
                        face_embedding |->
                          set_embedding(get_face_embedding(loc[p].face_image).embedding),
                        is_verified |-> FALSE,
                        otp_hash |-> hash_otp(c),
                        otp_expires_at |-> now + OTP_EXPIRY_MINUTES,
                        last_login_at |-> NoTime]}
              /\ \A u \in users : u.id < nextId]_vars

\* An account registered again: the first id is gone, the second is pending
\* under another password.
ReRegistrationReplacesWitness ==
    /\ resp = SignupOk
    /\ \E u \in users :
          /\ users = {u}
          /\ u.id = 2
          /\ ~u.is_verified
          /\ u.password_hash = hash_password(Pw2)
          /\ Stored(u) = EmbB

\* C10: under concurrent signups the table holds at most one account for
\* each normalized email.
OneAccountPerEmail ==
    \A u, v \in users : (u.email = v.email \/ u.id = v.id) => u = v

\* A signup is about to insert an email that another signup has committed
\* since it looked.
OneAccountPerEmailWitness ==
    \E p \in Procs :
        /\ pc[p] = "signup_persist"
        /\ AccountsOf(loc[p].email) # {}

\* C11: a signup whose insert meets the unique index on the email, because
\* another signup committed the same email since it looked, is answered
\* DuplicateAccount.
PersistConflictIsDuplicateAccount ==
    [][\A p \in Procs :
         ( /\ pc[p] = "signup_persist"
           /\ pc'[p] = "idle"
           /\ AccountsOf(loc[p].email) # {} )
         => resp' = DuplicateAccount]_vars

\* C12: a signup that passes validation and arrives while its client address
\* is rate-limited is answered RateLimited (429); no signup arriving then
\* records an attempt, reads on to the scan, deletes or creates an account,
\* or sends an email.
RateLimitedFailsFast ==
    [][\A p \in Procs : \A r \in RateRequests :
         ( /\ SignupBegin(p, r[1], r[2], r[3], r[4], r[5])
           /\ limiter[r[5]].attempts >= RATE_LIMIT_MAX_ATTEMPTS
           /\ now < limiter[r[5]].window_start + RATE_LIMIT_WINDOW_MINUTES )
         => ( /\ WellFormed(r) => resp' = RateLimited
              /\ pc'[p] = "idle"
              /\ mail' = NoMail
              /\ push' = NoPush
              /\ UNCHANGED <<users, nextId, limiter, sess>> )]_vars

\* A signup was turned down by the limiter while an earlier one of the same
\* address had gone through.
RateLimitedFailsFastWitness ==
    /\ resp = RateLimited
    /\ users # {}
    /\ \E k \in ClientKeys : limiter[k].attempts = RATE_LIMIT_MAX_ATTEMPTS

\* The attempts recorded for the address inside its still-open window.
AttemptsInWindow(k) ==
    IF /\ limiter[k].window_start # NoTime
       /\ now < limiter[k].window_start + RATE_LIMIT_WINDOW_MINUTES
      THEN limiter[k].attempts
      ELSE 0

\* C13: for every client address, a signup that passes validation is turned
\* down by the limiter exactly when the attempts recorded inside the
\* still-open window have reached the threshold; an address without a record
\* has zero attempts, and a record whose window has elapsed counts as zero
\* at the next signup, which then opens a new window with one attempt.
LimitedIffThresholdReached ==
    [][\A p \in Procs : \A r \in RateRequests :
         (SignupBegin(p, r[1], r[2], r[3], r[4], r[5]) /\ WellFormed(r)) =>
           LET k == r[5]
               n == AttemptsInWindow(k)
           IN  /\ (resp' = RateLimited) <=> (n >= RATE_LIMIT_MAX_ATTEMPTS)
               /\ n < RATE_LIMIT_MAX_ATTEMPTS =>
                     /\ limiter'[k].attempts = n + 1
                     /\ limiter'[k].window_start =
                          IF n = 0 THEN now ELSE limiter[k].window_start
               /\ limiter[k].window_start = NoTime => n = 0
               /\ \A j \in ClientKeys \ {k} : limiter'[j] = limiter[j]]_vars

\* One address is limited while the other has a fresh window, opened after
\* its first window had elapsed.
LimitedIffThresholdReachedWitness ==
    /\ resp = RateLimited
    /\ \E k \in ClientKeys :
          limiter[k].attempts = 1 /\ limiter[k].window_start >= RATE_LIMIT_WINDOW_MINUTES

IsLimited(k) == is_rate_limited(limiter[k], now)

\* C14, as claimed: isLimited is true for an address only once six attempts
\* were recorded for it within one window.
SixthAttemptLimits ==
    \A k \in ClientKeys :
        IsLimited(k) => limiter[k].attempts >= RATE_LIMIT_MAX_ATTEMPTS + 1

\* C14, amended: with threshold 5 and window 1 hour, it is the 5th attempt
\* recorded for an address within one window that makes isLimited true for
\* it, so that the 6th signup is the first one turned down; isLimited turns
\* false again only by the window elapsing, and is false once it has elapsed.
FifthAttemptLimits ==
    [][\A k \in ClientKeys :
         /\ (~IsLimited(k) /\ IsLimited(k)') =>
               /\ limiter[k].attempts = RATE_LIMIT_MAX_ATTEMPTS - 1
               /\ limiter'[k].attempts = RATE_LIMIT_MAX_ATTEMPTS
               /\ limiter'[k].window_start = limiter[k].window_start
               /\ now' = now
         /\ (IsLimited(k) /\ ~IsLimited(k)') =>
               /\ limiter'[k] = limiter[k]
               /\ now' >= limiter[k].window_start + RATE_LIMIT_WINDOW_MINUTES
         /\ now' >= limiter'[k].window_start + RATE_LIMIT_WINDOW_MINUTES =>
               ~IsLimited(k)']_vars

\* An address that was limited, after its window has elapsed.
FifthAttemptLimitsWitness ==
    \E k \in ClientKeys :
        /\ limiter[k].attempts = RATE_LIMIT_MAX_ATTEMPTS
        /\ now >= limiter[k].window_start + RATE_LIMIT_WINDOW_MINUTES
        /\ ~IsLimited(k)

\* C15: a face login goes on to its commit only when the account exists, is
\* verified and the face extracted from the image is the same person as the
\* stored one, and the session it then sets is bound to that account; on a
\* mismatch it is answered FaceMismatch (401), ends there, and leaves every
\* session and every account, last login included, as it was.
FaceLoginNeedsFace ==
    [][/\ \A p \in Procs : \A r \in RawEmails \X Images :
            LoginBegin(p, r[1], r[2]) =>
              LET accts == AccountsOf(NormalizeEmail(r[1]))
                  e == get_face_embedding(r[2]).embedding
              IN  /\ UNCHANGED <<users, sess, nextId>>
                  /\ pc'[p] = "login_commit" =>
                        \E u \in accts : /\ u.is_verified
                                         /\ e # None
                                         /\ is_same_person(e, Stored(u))
                                         /\ loc'[p].uid = u.id
                  /\ (\E u \in accts : /\ u.is_verified
                                        /\ e # None
                                        /\ ~is_same_person(e, Stored(u)))
                        => ( /\ resp' = FaceMismatch
                             /\ pc'[p] = "idle"
                             /\ mail' = NoMail
                             /\ push' = NoPush )
       /\ \A p \in Procs :
            (pc[p] = "login_commit" /\ sess'[p] # sess[p]) =>
              \E u \in users :
                  /\ u.id = loc[p].uid
                  /\ u.is_verified
                  /\ is_same_person(get_face_embedding(loc[p].face_image).embedding,
                                    Stored(u))
                  /\ sess'[p] = [user_id |-> u.id, email |-> u.email]]_vars

\* A face login with the face of another person was turned down; nobody has
\* ever logged in.
FaceLoginNeedsFaceWitness ==
    /\ resp = FaceMismatch
    /\ \E u \in users : u.is_verified
    /\ \A u \in users : u.last_login_at = NoTime
    /\ \A p \in Procs : sess[p] = NoSession

\* C16: a password login for an unverified account is turned down whether or
\* not the password is the right one, and sets no session; a password login
\* goes on to its commit, which answers LoginOk and sets the session, exactly
\* when the account is verified and the password matches the stored hash.
PasswordLoginNeedsVerified ==
    [][/\ \A p \in Procs : \A r \in RawEmails \X Passwords :
            LoginPasswordBegin(p, r[1], r[2]) =>
              LET accts == AccountsOf(NormalizeEmail(r[1]))
              IN  /\ UNCHANGED <<users, sess, nextId>>
                  /\ (\E u \in accts : ~u.is_verified) =>
                        /\ resp' = NotVerified
                        /\ pc'[p] = "idle"
                  /\ pc'[p] = "login_password_commit" <=>
                        \E u \in accts : /\ u.is_verified
                                         /\ u.password_hash = hash_password(r[2])
       /\ \A p \in Procs :
            (pc[p] = "login_password_commit" /\ pc'[p] = "idle") =>
              \E u \in users :
                  /\ u.id = loc[p].uid
                  /\ u.is_verified
                  /\ u.password_hash = hash_password(loc[p].password)
                  /\ resp' = LoginOk
                  /\ sess'[p] = [user_id |-> u.id, email |-> u.email]]_vars

\* A password login has succeeded (it emits no event) next to an account
\* that is still unverified.
PasswordLoginNeedsVerifiedWitness ==
    /\ resp = LoginOk
    /\ push = NoPush
    /\ \E p \in Procs : \E u \in users : u.is_verified /\ sess[p].user_id = u.id
    /\ \E u \in users : ~u.is_verified

\* C17: a successful login, by face or by password, updates the last-login
\* timestamp of the account, binds the session to its id, and dispatches a
\* login email to its address and a user_login event to its room.
LoginNotifiesBothChannels ==
    [][\A p \in Procs :
         ( /\ pc[p] \in {"login_commit", "login_password_commit"}
           /\ resp' = LoginOk )
         => ( /\ \E u \in users' : u.id = loc[p].uid /\ u.last_login_at = now
              /\ sess'[p].user_id = loc[p].uid
              /\ mail'.kind = "login"
              /\ mail'.to = loc[p].email
              /\ push'.event = "user_login"
              /\ push'.room = loc[p].uid )]_vars

\* The request of client p has just ended at the step named by label.
Ends(p, label) == pc[p] = label /\ pc'[p] = "idle"

\* C18: when the email is not delivered or the event is not emitted, what
\* the request committed stays: after signup the new account with its code,
\* after resend-otp the new code and expiry, after a login the last-login
\* timestamp and the session.
FailedNotificationKeepsCommit ==
    [][(mail'.result = "failed" \/ push'.result = "raised") =>
         \A p \in Procs :
           /\ Ends(p, "signup_persist") =>
                 \E u \in users' \ users :
                     /\ u.email = loc[p].email
                     /\ ~u.is_verified
                     /\ u.otp_hash = hash_otp(mail'.name)
                     /\ u.otp_expires_at = now + OTP_EXPIRY_MINUTES
           /\ Ends(p, "resend_commit") =>
                 \E u \in users' :
                     /\ u.id = loc[p].uid
                     /\ u.otp_hash = hash_otp(mail'.name)
                     /\ u.otp_expires_at = now + OTP_EXPIRY_MINUTES
           /\ (Ends(p, "login_commit") \/ Ends(p, "login_password_commit")) =>
                 /\ \E u \in users' : u.id = loc[p].uid /\ u.last_login_at = now
                 /\ sess'[p].user_id = loc[p].uid]_vars

\* The code of a signup was not delivered and its account is in the table.
FailedNotificationKeepsCommitWitness ==
    /\ resp = SignupOk
    /\ mail.result = "failed"
    /\ \E u \in users : u.email = mail.to /\ ~u.is_verified /\ u.otp_hash # None

\* C19: whenever a request has handed over an email or an event, delivered
\* or not, its caller gets the success response of the operation: signup
\* SignupOk, resend-otp ResendOk, the logins LoginOk, logout LogoutOk.
NotificationFailureNotSurfaced ==
    [][/\ (mail' # NoMail \/ push' # NoPush) =>
            resp' \in {SignupOk, ResendOk, LoginOk, LogoutOk}
       /\ \A p \in Procs :
            /\ (Ends(p, "signup_persist") /\ users' # users) => resp' = SignupOk
            /\ (Ends(p, "resend_commit") /\ users' # users) => resp' = ResendOk
            /\ (Ends(p, "login_commit") /\ users' # users) => resp' = LoginOk
            /\ (Ends(p, "login_password_commit") /\ users' # users) => resp' = LoginOk
            /\ (sess[p] # NoSession /\ sess'[p] = NoSession /\ push' # NoPush)
                 => resp' = LogoutOk]_vars

\* A face login was answered LoginOk although neither the email nor the
\* event went out.
NotificationFailureNotSurfacedWitness ==
    /\ resp = LoginOk
    /\ mail.result = "failed"
    /\ push.result = "raised"

\* C20: under concurrent requests, a signup that ends after the extraction
\* without SignupOk (duplicate face, violated unique index) leaves the table
\* as it was; a signup that ends with SignupOk adds exactly one account, with
\* its code; and no unverified account is ever in the table without a code
\* hash and an expiry.
SignupIsAtomic ==
    [][/\ \A p \in Procs :
            (Ends(p, "signup_scan") \/ Ends(p, "signup_persist")) =>
              IF resp' = SignupOk
                THEN \E u \in users' :
                       /\ users' = users \cup {u}
                       /\ u \notin users
                       /\ u.email = loc[p].email
                       /\ u.otp_hash # None
                       /\ u.otp_expires_at # NoTime
                ELSE users' = users
       /\ \A u \in users' :
            ~u.is_verified => (u.otp_hash # None /\ u.otp_expires_at # NoTime)]_vars

\* The insert of a signup has failed on the email that another signup
\* committed just before; the table holds that one account, with its code.
SignupIsAtomicWitness ==
    /\ resp = InternalError
    /\ nextId = 2
    /\ \E u \in users : users = {u} /\ u.id = 1 /\ ~u.is_verified /\ u.otp_hash # None

----------------------------------------------------------------------------

\* The extractor has no face embedding to give for this payload: it does not
\* decode, or no face is detected in it.
ExtractionFails(face_image) ==
    \/ NoFaceDetected(base64_to_image(face_image))
    \/ get_face_embedding(face_image).embedding = None

ExtractionErrors == {"Invalid image format", "No face detected in image"}

\* C21: when the extractor fails on the face image of a signup (the payload
\* does not decode, or no face is detected in it), the extraction step ends
\* the signup with the extractor's reason as a 400 and without an account;
\* it never goes on to the duplicate scan and the insert with a substitute
\* embedding.
ExtractionFailureEndsSignup ==
    [][\A p \in Procs :
          SignupScan(p) /\ ExtractionFails(loc[p].face_image)
              => /\ pc'[p] = "idle"
                 /\ resp'.status = 400
                 /\ resp'.body \in ExtractionErrors
                 /\ users' = users]_vars

\* The embeddings the extractor can give for a payload.
Extracted(face_image) ==
    {r.embedding : r \in Extractions(face_image)} \ {None}

\* C22: the phases of one signup run in the order validate, rate-limit,
\* extraction, duplicate scan, persist, issue code, each one only after all
\* the earlier ones have succeeded: the handler leaves its first step for
\* the extraction only with a body that passed validation and an attempt
\* the limiter let through and recorded, and with no embedding yet; it
\* reaches the insert only from the extraction step, with an extracted
\* embedding that the scan found on no account; a row is inserted only by
\* the persist step, and the code is mailed only once its row is stored.
SignupPhasesInOrder ==
    [][\A p \in Procs :
          /\ pc[p] = "idle" /\ pc'[p] \in {"signup_delete", "signup_scan"}
                => /\ Len(loc'[p].name) >= MIN_NAME_LEN
                   /\ Len(loc'[p].password) >= MIN_PASSWORD_LEN
                   /\ loc'[p].email # None /\ loc'[p].face_image # None
                   /\ loc'[p].embedding = None
                   /\ \E k \in ClientKeys :
                         /\ ~is_rate_limited(limiter[k], now)
                         /\ limiter'[k] = record_attempt(limiter[k], now)
                         /\ limiter'[k] # limiter[k]
          /\ pc[p] # "signup_scan" /\ pc'[p] = "signup_scan"
                => pc[p] \in {"idle", "signup_delete"}
          /\ pc[p] # "signup_persist" /\ pc'[p] = "signup_persist"
                => /\ pc[p] = "signup_scan"
                   /\ loc'[p].embedding \in Extracted(loc[p].face_image)
                   /\ ~FaceAlreadyRegistered(users, loc'[p].embedding)
          /\ pc[p] # pc'[p] /\ nextId' # nextId
                => pc[p] = "signup_persist" /\ pc'[p] = "idle"
          /\ pc[p] # pc'[p] /\ mail'.kind = "otp" /\ pc[p] # "resend_commit"
                => /\ pc[p] = "signup_persist"
                   /\ \E u \in users' \ users :
                         u.email = mail'.to /\ u.otp_hash # None]_vars

\* A signup has gone through all its phases.
SignupPhasesInOrderWitness ==
    /\ resp = SignupOk
    /\ mail.kind = "otp"
    /\ \E u \in users : u.email = mail.to /\ u.otp_hash # None

\* The body fails the input contract of signup: the trimmed name is shorter
\* than two characters, the email has no valid syntax, or the password is
\* shorter than the minimum.
Malformed(rawName, rawEmail, password) ==
    \/ Len(Strip(rawName)) < MIN_NAME_LEN
    \/ ~validate_email(NormalizeEmail(rawEmail))
    \/ Len(password) < MIN_PASSWORD_LEN

\* C23: a signup whose name, email or password fails the input contract is
\* answered 400 by the first step of the handler, before any side effect:
\* no attempt is recorded, no account is touched and the handler does not go
\* on.
SignupValidatesFirst ==
    [][\A p \in Procs : \A r \in IntakeRequests :
          SignupBegin(p, r[1], r[2], r[3], r[4], r[5])
              /\ Malformed(r[1], r[2], r[3])
              => /\ resp'.status = 400
                 /\ pc'[p] = "idle"
                 /\ limiter' = limiter
                 /\ users' = users]_vars

RequiredMessages ==
    {"name is required", "email is required", "password is required",
     "face_image is required"}

\* C24: a signup in which a required field (name, email, password, face
\* image) is missing or empty is answered 400 and has no effect: no attempt
\* is recorded, no account is created or deleted, no email is sent and the
\* handler does not go on.
MissingFieldChangesNothing ==
    [][\A p \in Procs : \A r \in SignupRequests :
          SignupBegin(p, r[1], r[2], r[3], r[4], r[5])
              /\ (r[1] = None \/ r[2] = None \/ r[3] = None \/ r[4] = None)
              => /\ resp'.status = 400
                 /\ resp'.body \in RequiredMessages
                 /\ pc'[p] = "idle"
                 /\ mail' = NoMail
                 /\ UNCHANGED <<users, nextId, limiter, sess>>]_vars

\* A signup without its face image has been turned down, with an account in
\* the table that it could have replaced.
MissingFieldChangesNothingWitness ==
    /\ resp = Response(400, "face_image is required")
    /\ \E u \in users : u.email = EmailB /\ ~u.is_verified

\* C25: a face login without its email or its face image is answered 400,
\* and one for an email that no account has is answered 404 NotFound; in
\* both cases the handler ends there: the answer does not depend on what
\* the extractor would make of the image, no session is set and no account
\* is modified.
FaceLoginRejectsEarly ==
    [][\A p \in Procs : \A r \in LoginRequests :
          LoginBegin(p, r[1], r[2])
              => /\ r[1] = None \/ r[2] = None
                       => /\ resp' = Response(400, "Email and face image are required")
                          /\ pc'[p] = "idle"
                          /\ UNCHANGED <<users, sess>>
                 /\ (/\ r[1] # None /\ r[2] # None
                     /\ \A u \in users : u.email # NormalizeEmail(r[1]))
                       => /\ resp' = NotFound
                          /\ pc'[p] = "idle"
                          /\ UNCHANGED <<users, sess>>]_vars

\* A face login for an email that no account has has been answered NotFound
\* while another account exists.
FaceLoginRejectsEarlyWitness ==
    /\ resp = NotFound
    /\ users # {}
    /\ \A u \in users : u.email # EmailB

\* C26: the validate-face pre-check changes nothing, whatever it is sent and
\* whatever it answers: the accounts, the rate-limit records and the
\* caller's session are after it what they were before it, and it notifies
\* nobody.
PreCheckChangesNothing ==
    [][\A p \in Procs : \A f \in ValidateFaceRequests :
          ValidateFace(p, f)
              => /\ UNCHANGED <<users, nextId, limiter, sess>>
                 /\ pc'[p] = "idle"
                 /\ mail' = NoMail /\ push' = NoPush]_vars

\* The pre-check has accepted a picture for a caller who is logged in, with
\* accounts in the table and signup attempts on record.
PreCheckChangesNothingWitness ==
    /\ resp = Response(200, "Face validation successful")
    /\ \E p \in Procs : pc[p] = "idle" /\ sess[p] # NoSession
    /\ users # {}
    /\ limiter[Ip1].attempts > 0

----------------------------------------------------------------------------

\* Where a distance 1 - dot/sqrt(sq) lies with respect to 1/2: the cosine
\* dot/sqrt(sq) against 1/2, by the squares when it is positive.
SideOfHalf(distance) ==
    CASE distance.dot <= 0 -> "above"
      [] 4 * distance.dot * distance.dot > distance.sq -> "below"
      [] 4 * distance.dot * distance.dot = distance.sq -> "at"
      [] OTHER -> "above"

\* C27: is_same_person compares strictly: it answers true exactly when the
\* distance of the two embeddings is below the threshold 0.5, and false
\* when the distance is exactly the threshold.
SamePersonIsStrict ==
    cmp.called /\ ~cmp.distance.nan
        => /\ cmp.same <=> SideOfHalf(cmp.distance) = "below"
           /\ SideOfHalf(cmp.distance) = "at" => ~cmp.same

\* The comparator has been called on two embeddings at distance 0.5.
SamePersonIsStrictWitness ==
    /\ cmp.called
    /\ cmp.embedding1 = EmbC1 /\ cmp.embedding2 = EmbC2
    /\ SideOfHalf(cmp.distance) = "at"
    /\ ~cmp.same

ZeroVector == <<0, 0, 0>>

\* the distance is 0: dot/sqrt(sq) = 1
IsZeroDistance(distance) ==
    /\ ~distance.nan
    /\ distance.dot > 0
    /\ distance.dot * distance.dot = distance.sq

\* C28: the distance of a non-zero embedding to itself is 0, and
\* is_same_person of an embedding and itself is true.
SelfComparisonMatches ==
    cmp.called /\ cmp.embedding1 = cmp.embedding2 /\ cmp.embedding1 # ZeroVector
        => IsZeroDistance(cmp.distance) /\ cmp.same

\* The comparator has been called on an embedding that is no unit vector
\* and on a copy of it.
SelfComparisonMatchesWitness ==
    /\ cmp.called
    /\ cmp.embedding1 = EmbA2 /\ cmp.embedding2 = EmbA2
    /\ cmp.same

\* the distance is 1.0: dot/sqrt(sq) = 0
IsOneDistance(distance) == ~distance.nan /\ distance.dot = 0

\* C29: when one of the two embeddings has norm zero, compare_embeddings
\* returns its fallback 1.0, never nan, and is_same_person answers false.
ZeroNormFallsBack ==
    cmp.called /\ (cmp.embedding1 = ZeroVector \/ cmp.embedding2 = ZeroVector)
        => IsOneDistance(cmp.distance) /\ ~cmp.same

----------------------------------------------------------------------------

\* C30: a push for an account reaches only the connections of that
\* account's room.  A connection is put into the room of an account only
\* when its session carries the id of that account: on connect the id of
\* the client's session, on join_notifications the id the connection was
\* opened with; a connection without a session id is disconnected and is in
\* no room; and the login and logout events of an account are emitted to
\* the room of that account and delivered to nobody outside it.
PushStaysInItsRoom ==
    [][\A p \in Procs :
          /\ \A id \in sock'[p].rooms \ sock[p].rooms :
                /\ id # NoId
                /\ sock'[p].user_id = id
                /\ ~sock[p].connected => sess[p].user_id = id
          /\ Connect(p) /\ sess[p].user_id = NoId
                => ~sock'[p].connected /\ sock'[p].rooms = {}
          /\ sock'[p].rooms \subseteq {sock'[p].user_id}
          /\ LoginCommit(p) /\ push' # NoPush
                => /\ push'.event = "user_login"
                   /\ push'.room = sess'[p].user_id
                   /\ push'.room = loc[p].uid
          /\ Logout(p) /\ push' # NoPush
                => /\ push'.event = "user_logout"
                   /\ push'.room = sess[p].user_id
          /\ push' # NoPush /\ p \in Receivers(push)'
                => sock'[p].user_id = push'.room]_vars

\* The login event of the second account has been delivered to a connection
\* of that account while the other client listens in the room of the first
\* account.
PushStaysInItsRoomWitness ==
    /\ push.event = "user_login" /\ push.room = 2
    /\ Receivers(push) # {}
    /\ \E q \in Procs : sock[q].connected /\ sock[q].rooms = {1}

----------------------------------------------------------------------------

\* C31: when resend-otp and verify-otp for one account interleave, the
\* commit of the resend leaves no verified account with a one-time-code hash
\* or expiry, also when the verify-otp committed after the resend had read
\* the account as unverified.
ResendAfterVerifyLeavesNoCode ==
    [][\A p \in Procs :
          ResendOtpCommit(p)
              => \A u \in users' :
                    u.is_verified
                        => u.otp_hash = None /\ u.otp_expires_at = NoTime]_vars

\* C32: the delete of a re-registering signup never removes an account that
\* is verified when the delete commits, also when a verify-otp committed
\* after the signup had read the account as unverified.
DeleteSparesVerified ==
    [][\A p \in Procs :
          SignupDelete(p)
              => \A u \in users : u.is_verified => u \in users']_vars

SignupRecordsOneAttempt ==
    [][\A p \in Procs :
          /\ \A r \in RateRequests :
                SignupBegin(p, r[1], r[2], r[3], r[4], r[5])
                    => IF /\ Len(Strip(r[1])) >= MIN_NAME_LEN
                          /\ AttemptsInWindow(r[5]) < RATE_LIMIT_MAX_ATTEMPTS
                         THEN /\ AttemptsInWindow(r[5])' = AttemptsInWindow(r[5]) + 1
                              /\ \A k \in ClientKeys \ {r[5]} : limiter'[k] = limiter[k]
                         ELSE /\ limiter' = limiter
                              /\ resp'.status \in {400, 429}
          /\ RateContinue(p) \/ OtherBegin(p) \/ OtherContinue(p)
                => limiter' = limiter /\ resp' # RateLimited]_vars

\* A signup for the email of a verified account has been answered
\* DuplicateAccount and counts as the second attempt of its address.
SignupRecordsOneAttemptWitness ==
    /\ resp = DuplicateAccount
    /\ \E k \in ClientKeys : AttemptsInWindow(k) >= 2

\* C35: with requests run to completion, the session of a client, when there
\* is one, carries the id and email of an existing verified account; a
\* session is written only by the commit of a successful login or
\* login-password, for the account that login is for, so that it is the
\* account of the client's latest successful login; and it is cleared only
\* by logout, or by /me when the account is gone.
SessionIsOfLatestLogin ==
    [][\A p \in Procs :
          /\ sess'[p] # NoSession
                => \E u \in users' :
                      /\ u.id = sess'[p].user_id
                      /\ u.email = sess'[p].email
                      /\ u.is_verified
          /\ sess'[p] # sess[p] /\ sess'[p] # NoSession
                => /\ pc[p] \in {"login_commit", "login_password_commit"}
                   /\ pc'[p] = "idle"
                   /\ resp' = LoginOk
                   /\ sess'[p].user_id = loc[p].uid
          /\ sess'[p] # sess[p] /\ sess'[p] = NoSession
                => /\ pc[p] = "idle" /\ pc'[p] = "idle"
                   /\ \/ resp' = LogoutOk
                      \/ resp' = NotFound /\ ~HasRow(users, sess[p].user_id)]_vars

\* Both clients are logged in, each to another account.
SessionIsOfLatestLoginWitness ==
    /\ \A p \in Procs : sess[p] # NoSession /\ pc[p] = "idle"
    /\ \E p \in Procs : \E q \in Procs : sess[p].user_id # sess[q].user_id

\* A step of a face login or a password login.
LoginStep(p) ==
    \/ \E r \in LoginRequests : LoginBegin(p, r[1], r[2])
    \/ \E r \in LoginPasswordRequests : LoginPasswordBegin(p, r[1], r[2])
    \/ LoginCommit(p)
    \/ LoginPasswordCommit(p)

\* C36: a login or login-password that fails (fields missing, unknown
\* email, unverified account, failed extraction, face mismatch, wrong
\* password) changes nothing: the session the caller had stays as it was,
\* no account field changes, last_login_at included, and nobody is
\* notified.
FailedLoginChangesNothing ==
    [][\A p \in Procs :
          LoginStep(p) /\ pc'[p] = "idle" /\ resp' # LoginOk
              => /\ resp'.status \in {400, 401, 404}
                 /\ UNCHANGED <<users, sess>>
                 /\ mail' = NoMail /\ push' = NoPush]_vars

\* A client that is logged in has sent a wrong password for the account of
\* the other, which has logged in before.
FailedLoginChangesNothingWitness ==
    /\ resp = InvalidCredentials
    /\ \E p \in Procs : sess[p] # NoSession
    /\ \E u \in users : u.last_login_at # NoTime
    /\ Cardinality(users) = 2

\* C37: with requests run to completion, an unverified account can always
\* still be verified.  A resend-otp for it is let through, whatever has
\* become of its old code; the commit of the resend stores the hash of a
\* fresh code that expires OTP_EXPIRY_MINUTES from now, whether or not the
\* mail goes out; and a verify-otp that brings the stored code not later
\* than its expiry is let through and sets verified = true.
PendingCanBeVerified ==
    [][\A p \in Procs :
          /\ \A e \in ResendOtpRequests :
                (/\ ResendOtpBegin(p, e)
                 /\ \E u \in users : u.email = NormalizeEmail(e) /\ ~u.is_verified)
                    => /\ pc'[p] = "resend_commit"
                       /\ ~Row(users, loc'[p].uid).is_verified
                       /\ Row(users, loc'[p].uid).email = NormalizeEmail(e)
          /\ ResendOtpCommit(p)
                => /\ resp' = ResendOk
                   /\ \E c \in Codes : verify_otp(c, Row(users', loc[p].uid).otp_hash)
                   /\ mail'.kind = "otp" /\ mail'.result \in EmailResults
                   /\ Row(users', loc[p].uid).otp_expires_at = now + OTP_EXPIRY_MINUTES
                   /\ ~Row(users', loc[p].uid).is_verified
          /\ \A r \in VerifyOtpRequests :
                (/\ VerifyOtpBegin(p, r[1], r[2])
                 /\ \E u \in users :
                       /\ u.email = NormalizeEmail(r[1]) /\ ~u.is_verified
                       /\ u.otp_hash = hash_otp(Strip(r[2]))
                       /\ now <= u.otp_expires_at)
                    => pc'[p] = "verify_commit"
          /\ VerifyOtpCommit(p)
                => resp' = VerifyOk /\ Row(users', loc[p].uid).is_verified]_vars

\* An account whose first code had expired is being verified, at the very
\* minute its code expires, with a code that a resend-otp issued.
PendingCanBeVerifiedWitness ==
    \E p \in Procs :
        /\ pc[p] = "verify_commit"
        /\ users = {Row(users, loc[p].uid)}
        /\ Row(users, loc[p].uid).id = 1 /\ nextId = 2
        /\ Row(users, loc[p].uid).otp_expires_at = now
        /\ limiter[Ip1].window_start = 0
        /\ limiter[Ip1].attempts = 1
        /\ now = MaxTicks * TickMinutes

\* C38: a password login gets the same answer, 401 'Invalid credentials',
\* for an email that no account has and for a verified account with a wrong
\* password, so that the answer does not tell the two apart; in neither
\* case does anything change.
WrongPasswordLooksLikeNoAccount ==
    [][\A p \in Procs : \A r \in LoginPasswordRequests :
          (/\ LoginPasswordBegin(p, r[1], r[2])
           /\ r[1] # None /\ r[2] # None
           /\ \/ \A u \in users : u.email # NormalizeEmail(r[1])
              \/ \E u \in users :
                    /\ u.email = NormalizeEmail(r[1]) /\ u.is_verified
                    /\ u.password_hash # hash_password(r[2]))
              => /\ resp' = Response(401, "Invalid credentials")
                 /\ pc'[p] = "idle"
                 /\ mail' = NoMail /\ push' = NoPush
                 /\ UNCHANGED <<users, sess, limiter>>]_vars

\* The answer has been given while one email has a verified account and the
\* other has none.
WrongPasswordLooksLikeNoAccountWitness ==
    /\ resp = InvalidCredentials
    /\ Cardinality(users) = 1
    /\ \A u \in users : u.is_verified

====
